---- MODULE Spec2Model ----
(***************************************************************************)
(* CampusNav lost-and-found server: OTP e-mail verification, the verified  *)
(* e-mail set, the per-e-mail submission counters and the item documents.  *)
(*                                                                         *)
(* The repository holds four revisions of the server:                      *)
(*   "s1"  src/server.js          lines   1..459                           *)
(*   "s2"  src/server.js          lines 461..835                           *)
(*   "p1"  src/unnamed/part_000   lines   1..372                           *)
(*   "p2"  src/unnamed/part_000   lines 374..735                           *)
(* The variable rev says which revision is running.  p1 and p2 leave the   *)
(* seen/claim routes (p2 also the item creation route) to "the existing    *)
(* implementation", which is the one of s1.                                *)
(*                                                                         *)
(* A handler runs without interruption up to its next await; a request     *)
(* that is suspended at an await is an element of the bag tasks.           *)
(***************************************************************************)
EXTENDS Integers, Sequences, FiniteSets, Bags, TLC

VARIABLES
    rev,             \* the revision that is running
    now,             \* Date.now(), in milliseconds
    ticks,           \* how many times the clock has been advanced
    otpStore,        \* Map email -> {otp, expiry, itemId}
    verifiedEmails,  \* Set of e-mails
    claimCounts,     \* Map email -> number
    seenCounts,      \* Map email -> number
    items,           \* the documents of collection 'Lost-found', by creation
    tasks,           \* requests suspended at an await
    res,             \* the response sent by the last step, or NoRes
    mail,            \* the e-mail handed to the transport by the last step
    removed          \* the otpStore record the last step deleted or replaced

vars == <<rev, now, ticks, otpStore, verifiedEmails, claimCounts, seenCounts,
          items, tasks, res, mail, removed>>

-----------------------------------------------------------------------------
(* Bounds *)

\* the clock is advanced at most MaxTicks times
MaxTicks == 2

\* requests that are suspended at an await at the same time, and those of
\* them that are OTP requests
MaxTasks == 2
MaxOtpTasks == 1

\* documents in the collection, and elements of all seenBy and claims arrays
MaxItems == 2
MaxEntries == 3

-----------------------------------------------------------------------------
(* Revisions *)

Revs == {"s1", "s2", "p1", "p2"}

\* app.post('/api/request-otp') exists in server.js only
HasRequestOtp(r) == r \in {"s1", "s2"}

\* app.post('/api/items/:id/request-otp') exists in part_000 only
HasItemRequestOtp(r) == r \in {"p1", "p2"}

\* app.post('/api/items/:id/resolve') is missing from the second server.js
HasResolve(r) == r \in {"s1", "p1", "p2"}

\* the resolve route of part_000 asks for an OTP verification
ResolveChecksVerified(r) == r \in {"p1", "p2"}

\* the first server.js and the first part_000 upload the photo to Cloudinary
HasUpload(r) == r \in {"s1", "p1"}

-----------------------------------------------------------------------------
(* E-mail addresses.  The state holds the names; Addr gives the text. *)

Chitkara == <<"@","c","h","i","t","k","a","r","a",".","e","d","u",".","i","n">>

Addr(e) ==
    CASE e = "A" -> <<"a","b","1","2","3","4",".","b","e","c","s","e","2","1">> \o Chitkara
      [] e = "B" -> <<"x","0","0","0","7",".","p","h","d","e","c","2","2">> \o Chitkara
      [] e = "X" -> <<"r","e","p","o","r","t","e","r","@","i","n","s","t",".","e","d","u">>
      [] OTHER   -> << >>

Emails == {"A", "B", "X"}

\* an absent or empty e-mail field of the request body
NoEmail == "none"

Digit == {"0","1","2","3","4","5","6","7","8","9"}

Letter == {"a","b","c","d","e","f","g","h","i","j","k","l","m","n","o","p",
           "q","r","s","t","u","v","w","x","y","z",
           "A","B","C","D","E","F","G","H","I","J","K","L","M","N","O","P",
           "Q","R","S","T","U","V","W","X","Y","Z"}

Programmes == { <<"b","e">>, <<"b","t","e","c","h">>, <<"m","t","e","c","h">>,
                <<"p","h","d">> }

\* /^[a-zA-Z0-9]+[0-9]{4}\.(?:be|btech|mtech|phd)[a-zA-Z]{2,4}[0-9]{2}@chitkara\.edu\.in$/
MatchesChitkara(s) ==
    \E i \in 1..Len(s) : \E p \in Programmes : \E k \in 2..4 :
        LET b == i + 4
            c == b + 1
            d == c + Len(p)
            f == d + k
            g == f + 2
        IN  /\ Len(s) = g + Len(Chitkara)
            /\ \A j \in 1..i : s[j] \in Letter \cup Digit
            /\ \A j \in (i+1)..b : s[j] \in Digit
            /\ s[c] = "."
            /\ SubSeq(s, c+1, d) = p
            /\ \A j \in (d+1)..f : s[j] \in Letter
            /\ \A j \in (f+1)..g : s[j] \in Digit
            /\ SubSeq(s, g+1, Len(s)) = Chitkara

\* the e-mails of the model that the pattern accepts
Institutional == { e \in Emails : MatchesChitkara(Addr(e)) }

\* !email || !email.match(...)
ValidEmail(e) == e # NoEmail /\ e \in Institutional

-----------------------------------------------------------------------------
(* One-time codes *)

OTP_TTL == 600000

\* crypto.randomInt(min, max): min <= n < max
randomInt(min, max) == min .. (max - 1)

\* the values of the range that the model draws
CodeSamples == {100000, 999998, 999999}

\* crypto.randomInt(100000, 999999).toString()
generateOTP == { ToString(n) : n \in randomInt(100000, 999999) \cap CodeSamples }

\* the codes a client presents
PresentedCodes == { ToString(n) : n \in CodeSamples }

NoOTP == [otp |-> "", expiry |-> 0, itemId |-> 0]

NoItem == 0

-----------------------------------------------------------------------------
(* Responses, e-mails and suspended requests *)

Res(op, email, id, arg, kind, http) ==
    [op |-> op, email |-> email, id |-> id, arg |-> arg, kind |-> kind,
     http |-> http, notified |-> FALSE]

NoRes == Res("none", NoEmail, NoItem, "", "none", 0)

Mail(to, what) == [to |-> to, what |-> what]

NoMail == Mail(NoEmail, "none")

Task(op, pc, email, id, arg, cnt, file) ==
    [op |-> op, pc |-> pc, email |-> email, id |-> id, arg |-> arg,
     cnt |-> cnt, file |-> file]

Suspend(t) == tasks (+) SetToBag({t})

Resume(t) == tasks (-) SetToBag({t})

Waiting(op, pc) == { t \in BagToSet(tasks) : t.op = op /\ t.pc = pc }

\* requests of kind op in flight
InFlight(op) ==
    LET S == { t \in BagToSet(tasks) : t.op = op }
        RECURSIVE Sum(_)
        Sum(T) == IF T = {} THEN 0
                  ELSE LET t == CHOOSE x \in T : TRUE
                       IN  CopiesIn(t, tasks) + Sum(T \ {t})
    IN  Sum(S)

CanSuspend == BagCardinality(tasks) < MaxTasks

CanSuspendOtp ==
    /\ CanSuspend
    /\ InFlight("requestOtp") + InFlight("itemRequestOtp") < MaxOtpTasks

\* Item.findById(id): the document, or null
Exists(id) == id \in 1..Len(items)

-----------------------------------------------------------------------------
(* The clock *)

Tick ==
    /\ ticks < MaxTicks
    /\ \E d \in {1, OTP_TTL - 1} : now' = now + d
    /\ ticks' = ticks + 1
    /\ res' = NoRes
    /\ mail' = NoMail
    /\ removed' = NoOTP
    /\ UNCHANGED <<rev, otpStore, verifiedEmails, claimCounts, seenCounts,
                   items, tasks>>

-----------------------------------------------------------------------------
(* POST /api/request-otp *)

RequestOtp(e, otp) ==
    /\ HasRequestOtp(rev)
    /\ otp \in generateOTP
    /\ IF e = NoEmail
       THEN /\ res' = Res("requestOtp", e, NoItem, "", "ValidationError", 400)
            /\ mail' = NoMail
            /\ tasks' = tasks
       ELSE /\ CanSuspendOtp
            /\ tasks' = Suspend(Task("requestOtp", "send", e, NoItem, otp, 0, FALSE))
            /\ res' = NoRes
            /\ mail' = Mail(e, "otp")
    /\ removed' = NoOTP
    /\ UNCHANGED <<rev, now, ticks, otpStore, verifiedEmails, claimCounts,
                   seenCounts, items>>

\* StoreOtp that leaves a record that is already there in place
StoreOtp_keep(t) ==
    /\ otpStore' = IF otpStore[t.email] # NoOTP THEN otpStore
                   ELSE [otpStore EXCEPT ![t.email] =
                           [otp |-> t.arg, expiry |-> now + OTP_TTL, itemId |-> t.id]]
    /\ removed' = otpStore[t.email]

\* otpStore.set(email, {otp, expiry: Date.now() + 600000, itemId})
StoreOtp(t) ==
    /\ otpStore' = [otpStore EXCEPT ![t.email] =
                      [otp |-> t.arg, expiry |-> now + OTP_TTL, itemId |-> t.id]]
    /\ removed' = otpStore[t.email]

\* RequestOtpSent that also marks the e-mail as verified
RequestOtpSent_verifies(t) ==
    /\ t \in Waiting("requestOtp", "send")
    /\ tasks' = Resume(t)
    /\ mail' = NoMail
    /\ \E sent \in BOOLEAN :
         IF sent
         THEN /\ StoreOtp(t)
              /\ verifiedEmails' = verifiedEmails \cup {t.email}
              /\ res' = Res("requestOtp", t.email, NoItem, t.arg, "Ok", 200)
         ELSE /\ res' = Res("requestOtp", t.email, NoItem, t.arg, "DeliveryFailed", 500)
              /\ UNCHANGED <<otpStore, verifiedEmails>>
              /\ removed' = NoOTP
    /\ UNCHANGED <<rev, now, ticks, claimCounts, seenCounts, items>>

\* the continuation of await sendOTPEmail(email, otp)
RequestOtpSent(t) ==
    /\ t \in Waiting("requestOtp", "send")
    /\ tasks' = Resume(t)
    /\ mail' = NoMail
    /\ \E sent \in BOOLEAN :
         IF sent
         THEN /\ StoreOtp(t)
              /\ res' = Res("requestOtp", t.email, NoItem, t.arg, "Ok", 200)
         ELSE /\ res' = Res("requestOtp", t.email, NoItem, t.arg, "DeliveryFailed", 500)
              /\ UNCHANGED otpStore
              /\ removed' = NoOTP
    /\ UNCHANGED <<rev, now, ticks, verifiedEmails, claimCounts, seenCounts, items>>

-----------------------------------------------------------------------------
(* POST /api/items/:id/request-otp *)

ItemRequestOtp(id, e) ==
    /\ HasItemRequestOtp(rev)
    /\ IF e = NoEmail
       THEN /\ res' = Res("itemRequestOtp", e, id, "", "ValidationError", 400)
            /\ tasks' = tasks
       ELSE /\ CanSuspendOtp
            /\ tasks' = Suspend(Task("itemRequestOtp", "find", e, id, "", 0, FALSE))
            /\ res' = NoRes
    /\ mail' = NoMail
    /\ removed' = NoOTP
    /\ UNCHANGED <<rev, now, ticks, otpStore, verifiedEmails, claimCounts,
                   seenCounts, items>>

\* ItemRequestOtpFound without the test email !== item.yourEmail
ItemRequestOtpFound_anyone(t, otp) ==
    /\ t \in Waiting("itemRequestOtp", "find")
    /\ otp \in generateOTP
    /\ \E dbOk \in BOOLEAN :
         IF ~dbOk
         THEN /\ res' = Res("itemRequestOtp", t.email, t.id, "", "StorageError", 500)
              /\ tasks' = Resume(t)
              /\ mail' = NoMail
         ELSE IF ~Exists(t.id)
         THEN /\ res' = Res("itemRequestOtp", t.email, t.id, "", "NotFound", 404)
              /\ tasks' = Resume(t)
              /\ mail' = NoMail
         ELSE /\ tasks' = Resume(t) (+)
                          SetToBag({[t EXCEPT !.pc = "send", !.arg = otp]})
              /\ res' = NoRes
              /\ mail' = Mail(t.email, "otp")
    /\ removed' = NoOTP
    /\ UNCHANGED <<rev, now, ticks, otpStore, verifiedEmails, claimCounts,
                   seenCounts, items>>

\* the continuation of await Item.findById(itemId)
ItemRequestOtpFound(t, otp) ==
    /\ t \in Waiting("itemRequestOtp", "find")
    /\ otp \in generateOTP
    /\ \E dbOk \in BOOLEAN :
         IF ~dbOk
         THEN /\ res' = Res("itemRequestOtp", t.email, t.id, "", "StorageError", 500)
              /\ tasks' = Resume(t)
              /\ mail' = NoMail
         ELSE IF ~Exists(t.id)
         THEN /\ res' = Res("itemRequestOtp", t.email, t.id, "", "NotFound", 404)
              /\ tasks' = Resume(t)
              /\ mail' = NoMail
         ELSE IF t.email # items[t.id].yourEmail
         THEN /\ res' = Res("itemRequestOtp", t.email, t.id, "", "Unauthorized", 403)
              /\ tasks' = Resume(t)
              /\ mail' = NoMail
         ELSE /\ tasks' = Resume(t) (+)
                          SetToBag({[t EXCEPT !.pc = "send", !.arg = otp]})
              /\ res' = NoRes
              /\ mail' = Mail(t.email, "otp")
    /\ removed' = NoOTP
    /\ UNCHANGED <<rev, now, ticks, otpStore, verifiedEmails, claimCounts,
                   seenCounts, items>>

\* the continuation of await sendOTPEmail(email, otp)
ItemRequestOtpSent(t) ==
    /\ t \in Waiting("itemRequestOtp", "send")
    /\ tasks' = Resume(t)
    /\ mail' = NoMail
    /\ \E sent \in BOOLEAN :
         IF sent
         THEN /\ StoreOtp(t)
              /\ res' = Res("itemRequestOtp", t.email, t.id, t.arg, "Ok", 200)
         ELSE /\ res' = Res("itemRequestOtp", t.email, t.id, t.arg, "DeliveryFailed", 500)
              /\ UNCHANGED otpStore
              /\ removed' = NoOTP
    /\ UNCHANGED <<rev, now, ticks, verifiedEmails, claimCounts, seenCounts, items>>

-----------------------------------------------------------------------------
(* POST /api/verify-otp *)

\* VerifyKind with the expiry test Date.now() >= expiry
VerifyKind_ge(e, otp) ==
    IF e = NoEmail \/ otp = "" THEN "ValidationError"
    ELSE IF otpStore[e] = NoOTP THEN "NotFound"
    ELSE IF now >= otpStore[e].expiry THEN "Expired"
    ELSE IF otp # otpStore[e].otp THEN "Mismatch"
    ELSE "Ok"

\* VerifyKind that compares the code before it looks at the expiry
VerifyKind_codeFirst(e, otp) ==
    IF e = NoEmail \/ otp = "" THEN "ValidationError"
    ELSE IF otpStore[e] = NoOTP THEN "NotFound"
    ELSE IF otp # otpStore[e].otp THEN "Mismatch"
    ELSE IF now > otpStore[e].expiry THEN "Expired"
    ELSE "Ok"

\* what the route answers to {email, otp}
VerifyKind(e, otp) ==
    IF e = NoEmail \/ otp = "" THEN "ValidationError"
    ELSE IF otpStore[e] = NoOTP THEN "NotFound"
    ELSE IF now > otpStore[e].expiry THEN "Expired"
    ELSE IF otp # otpStore[e].otp THEN "Mismatch"
    ELSE "Ok"

\* VerifyOtp without otpStore.delete(email) after a successful verification
VerifyOtp_noDelete(e, otp) ==
    LET kind == VerifyKind(e, otp)
    IN  /\ res' = Res("verifyOtp", e,
                      IF kind = "Ok" /\ rev \in {"p1", "p2"}
                      THEN otpStore[e].itemId ELSE NoItem,
                      otp, kind, IF kind = "Ok" THEN 200 ELSE 400)
        /\ IF kind = "Expired"
           THEN /\ otpStore' = [otpStore EXCEPT ![e] = NoOTP]
                /\ removed' = otpStore[e]
                /\ UNCHANGED verifiedEmails
           ELSE IF kind = "Ok"
           THEN /\ verifiedEmails' = verifiedEmails \cup {e}
                /\ removed' = NoOTP
                /\ UNCHANGED otpStore
           ELSE /\ removed' = NoOTP
                /\ UNCHANGED <<otpStore, verifiedEmails>>
        /\ mail' = NoMail
        /\ UNCHANGED <<rev, now, ticks, claimCounts, seenCounts, items, tasks>>

\* VerifyOtp that deletes the record when the code does not match
VerifyOtp_dropOnMismatch(e, otp) ==
    LET kind == VerifyKind(e, otp)
    IN  /\ res' = Res("verifyOtp", e,
                      IF kind = "Ok" /\ rev \in {"p1", "p2"}
                      THEN otpStore[e].itemId ELSE NoItem,
                      otp, kind, IF kind = "Ok" THEN 200 ELSE 400)
        /\ IF kind \in {"Expired", "Mismatch"}
           THEN /\ otpStore' = [otpStore EXCEPT ![e] = NoOTP]
                /\ removed' = otpStore[e]
                /\ UNCHANGED verifiedEmails
           ELSE IF kind = "Ok"
           THEN /\ verifiedEmails' = verifiedEmails \cup {e}
                /\ otpStore' = [otpStore EXCEPT ![e] = NoOTP]
                /\ removed' = otpStore[e]
           ELSE /\ removed' = NoOTP
                /\ UNCHANGED <<otpStore, verifiedEmails>>
        /\ mail' = NoMail
        /\ UNCHANGED <<rev, now, ticks, claimCounts, seenCounts, items, tasks>>

VerifyOtp(e, otp) ==
    LET kind == VerifyKind(e, otp)
    IN  /\ res' = Res("verifyOtp", e,
                      IF kind = "Ok" /\ rev \in {"p1", "p2"}
                      THEN otpStore[e].itemId ELSE NoItem,
                      otp, kind, IF kind = "Ok" THEN 200 ELSE 400)
        /\ IF kind = "Expired"
           THEN /\ otpStore' = [otpStore EXCEPT ![e] = NoOTP]
                /\ removed' = otpStore[e]
                /\ UNCHANGED verifiedEmails
           ELSE IF kind = "Ok"
           THEN /\ verifiedEmails' = verifiedEmails \cup {e}
                /\ otpStore' = [otpStore EXCEPT ![e] = NoOTP]
                /\ removed' = otpStore[e]
           ELSE /\ removed' = NoOTP
                /\ UNCHANGED <<otpStore, verifiedEmails>>
        /\ mail' = NoMail
        /\ UNCHANGED <<rev, now, ticks, claimCounts, seenCounts, items, tasks>>

-----------------------------------------------------------------------------
(* Item documents *)

Doc(status, yourEmail, seenBy, claims) ==
    [status |-> status, yourEmail |-> yourEmail, seenBy |-> seenBy,
     claims |-> claims]

\* status: { type: String, enum: [...], required: true }
StatusEnum(r) == IF r = "s2" THEN {"lost", "found"}
                 ELSE {"lost", "found", "resolved"}

\* the status values a client sends; "" is a missing field
BodyStatuses == {"lost", "found", "resolved", "stolen", ""}

\* the validation that newItem.save() runs
ValidDoc(r, d) ==
    /\ d.status \in StatusEnum(r)
    /\ r = "p2" => ValidEmail(d.yourEmail)

\* one element of seenBy or claims
Entry(e) == [email |-> e]

\* the elements of all seenBy and claims arrays, and those about to be pushed
RECURSIVE Entries(_)
Entries(n) == IF n = 0 THEN 0
              ELSE Len(items[n].seenBy) + Len(items[n].claims) + Entries(n - 1)

CanPush == Entries(Len(items)) + InFlight("seen") + InFlight("claim") < MaxEntries

-----------------------------------------------------------------------------
(* POST /api/items *)

\* CreateItem without the verifiedEmails.has(req.body.yourEmail) test
CreateItem_unverified(e, status, fields, file, extra) ==
    /\ IF ~fields \/ status = "" \/ e = NoEmail
       THEN /\ res' = Res("create", e, NoItem, status, "ValidationError", 400)
            /\ tasks' = tasks
       ELSE /\ CanSuspend
            /\ Len(items) + InFlight("create") < MaxItems
            /\ tasks' = Suspend(Task("create",
                                     IF file /\ HasUpload(rev) THEN "upload" ELSE "save",
                                     e, NoItem, status,
                                     IF rev = "p1" THEN extra ELSE 0, file))
            /\ res' = NoRes
    /\ mail' = NoMail
    /\ removed' = NoOTP
    /\ UNCHANGED <<rev, now, ticks, otpStore, verifiedEmails, claimCounts,
                   seenCounts, items>>

CreateItem(e, status, fields, file, extra) ==
    /\ IF ~fields \/ status = "" \/ e = NoEmail
       THEN /\ res' = Res("create", e, NoItem, status, "ValidationError", 400)
            /\ tasks' = tasks
       ELSE IF e \notin verifiedEmails
       THEN /\ res' = Res("create", e, NoItem, status, "NotVerified", 400)
            /\ tasks' = tasks
       ELSE /\ CanSuspend
            /\ Len(items) + InFlight("create") < MaxItems
            /\ tasks' = Suspend(Task("create",
                                     IF file /\ HasUpload(rev) THEN "upload" ELSE "save",
                                     e, NoItem, status,
                                     IF rev = "p1" THEN extra ELSE 0, file))
            /\ res' = NoRes
    /\ mail' = NoMail
    /\ removed' = NoOTP
    /\ UNCHANGED <<rev, now, ticks, otpStore, verifiedEmails, claimCounts,
                   seenCounts, items>>

\* CreateItemUploaded that goes on to save the item without the photo when
\* the upload fails
CreateItemUploaded_dropPhoto(t) ==
    /\ t \in Waiting("create", "upload")
    /\ \E uploaded \in BOOLEAN :
         IF uploaded
         THEN /\ tasks' = Resume(t) (+) SetToBag({[t EXCEPT !.pc = "save"]})
              /\ res' = NoRes
         ELSE /\ tasks' = Resume(t) (+)
                          SetToBag({[t EXCEPT !.pc = "save", !.file = FALSE]})
              /\ res' = NoRes
    /\ mail' = NoMail
    /\ removed' = NoOTP
    /\ UNCHANGED <<rev, now, ticks, otpStore, verifiedEmails, claimCounts,
                   seenCounts, items>>

\* the continuation of await uploadToCloudinary(req.file.path)
CreateItemUploaded(t) ==
    /\ t \in Waiting("create", "upload")
    /\ \E uploaded \in BOOLEAN :
         IF uploaded
         THEN /\ tasks' = Resume(t) (+) SetToBag({[t EXCEPT !.pc = "save"]})
              /\ res' = NoRes
         ELSE /\ tasks' = Resume(t)
              /\ res' = Res("create", t.email, NoItem, t.arg, "UploadError", 500)
    /\ mail' = NoMail
    /\ removed' = NoOTP
    /\ UNCHANGED <<rev, now, ticks, otpStore, verifiedEmails, claimCounts,
                   seenCounts, items>>

\* new Item({...}) as the route builds it
NewItem(t) ==
    Doc(t.arg, t.email, [i \in 1..t.cnt |-> Entry(NoEmail)], << >>)

\* CreateItemSaved without verifiedEmails.delete(req.body.yourEmail)
CreateItemSaved_keep(t) ==
    /\ t \in Waiting("create", "save")
    /\ tasks' = Resume(t)
    /\ \E dbOk \in BOOLEAN :
         IF dbOk /\ ValidDoc(rev, NewItem(t))
         THEN /\ items' = Append(items, NewItem(t))
              /\ res' = Res("create", t.email, Len(items) + 1, t.arg, "Ok", 201)
         ELSE /\ res' = Res("create", t.email, NoItem, t.arg, "StorageError", 500)
              /\ UNCHANGED items
    /\ mail' = NoMail
    /\ removed' = NoOTP
    /\ UNCHANGED <<rev, now, ticks, otpStore, verifiedEmails, claimCounts,
                   seenCounts>>

\* CreateItemSaved that removes the verification also when the save fails
CreateItemSaved_consumeOnFail(t) ==
    /\ t \in Waiting("create", "save")
    /\ tasks' = Resume(t)
    /\ \E dbOk \in BOOLEAN :
         IF dbOk /\ ValidDoc(rev, NewItem(t))
         THEN /\ items' = Append(items, NewItem(t))
              /\ res' = Res("create", t.email, Len(items) + 1, t.arg, "Ok", 201)
         ELSE /\ res' = Res("create", t.email, NoItem, t.arg, "StorageError", 500)
              /\ UNCHANGED items
    /\ verifiedEmails' = verifiedEmails \ {t.email}
    /\ mail' = NoMail
    /\ removed' = NoOTP
    /\ UNCHANGED <<rev, now, ticks, otpStore, claimCounts, seenCounts>>

\* the continuation of await newItem.save()
CreateItemSaved(t) ==
    /\ t \in Waiting("create", "save")
    /\ tasks' = Resume(t)
    /\ \E dbOk \in BOOLEAN :
         IF dbOk /\ ValidDoc(rev, NewItem(t))
         THEN /\ items' = Append(items, NewItem(t))
              /\ verifiedEmails' = verifiedEmails \ {t.email}
              /\ res' = Res("create", t.email, Len(items) + 1, t.arg, "Ok", 201)
         ELSE /\ res' = Res("create", t.email, NoItem, t.arg, "StorageError", 500)
              /\ UNCHANGED <<items, verifiedEmails>>
    /\ mail' = NoMail
    /\ removed' = NoOTP
    /\ UNCHANGED <<rev, now, ticks, otpStore, claimCounts, seenCounts>>

-----------------------------------------------------------------------------
(* POST /api/items/:id/seen *)

\* Seen without the test of the e-mail against the pattern
Seen_unchecked(id, e) ==
    /\ IF e # NoEmail /\ seenCounts[e] >= 2
       THEN /\ res' = Res("seen", e, id, "", "QuotaExceeded", 400)
            /\ tasks' = tasks
       ELSE /\ CanSuspend
            /\ CanPush
            /\ tasks' = Suspend(Task("seen", "update", e, id, "",
                                     IF e = NoEmail THEN 0 ELSE seenCounts[e], FALSE))
            /\ res' = NoRes
    /\ mail' = NoMail
    /\ removed' = NoOTP
    /\ UNCHANGED <<rev, now, ticks, otpStore, verifiedEmails, claimCounts,
                   seenCounts, items>>

\* Seen that refuses only above two counted sightings
Seen_above2(id, e) ==
    /\ IF ~ValidEmail(e)
       THEN /\ res' = Res("seen", e, id, "", "InvalidEmail", 400)
            /\ tasks' = tasks
       ELSE IF seenCounts[e] > 2
       THEN /\ res' = Res("seen", e, id, "", "QuotaExceeded", 400)
            /\ tasks' = tasks
       ELSE /\ CanSuspend
            /\ CanPush
            /\ tasks' = Suspend(Task("seen", "update", e, id, "", seenCounts[e], FALSE))
            /\ res' = NoRes
    /\ mail' = NoMail
    /\ removed' = NoOTP
    /\ UNCHANGED <<rev, now, ticks, otpStore, verifiedEmails, claimCounts,
                   seenCounts, items>>

Seen(id, e) ==
    /\ IF ~ValidEmail(e)
       THEN /\ res' = Res("seen", e, id, "", "InvalidEmail", 400)
            /\ tasks' = tasks
       ELSE IF seenCounts[e] >= 2
       THEN /\ res' = Res("seen", e, id, "", "QuotaExceeded", 400)
            /\ tasks' = tasks
       ELSE /\ CanSuspend
            /\ CanPush
            /\ tasks' = Suspend(Task("seen", "update", e, id, "", seenCounts[e], FALSE))
            /\ res' = NoRes
    /\ mail' = NoMail
    /\ removed' = NoOTP
    /\ UNCHANGED <<rev, now, ticks, otpStore, verifiedEmails, claimCounts,
                   seenCounts, items>>

\* SeenUpdated that counts the sighting although the update failed
SeenUpdated_countOnError(t) ==
    /\ t \in Waiting("seen", "update")
    /\ \E dbOk \in BOOLEAN :
         IF ~dbOk
         THEN /\ res' = Res("seen", t.email, t.id, "", "StorageError", 500)
              /\ seenCounts' = [seenCounts EXCEPT ![t.email] = t.cnt + 1]
              /\ tasks' = Resume(t)
              /\ mail' = NoMail
              /\ UNCHANGED items
         ELSE IF ~Exists(t.id)
         THEN /\ res' = Res("seen", t.email, t.id, "", "NotFound", 404)
              /\ tasks' = Resume(t)
              /\ mail' = NoMail
              /\ UNCHANGED <<items, seenCounts>>
         ELSE /\ items' = [items EXCEPT ![t.id].seenBy = Append(@, Entry(t.email))]
              /\ seenCounts' = [seenCounts EXCEPT ![t.email] = t.cnt + 1]
              /\ tasks' = Resume(t) (+) SetToBag({[t EXCEPT !.pc = "mail"]})
              /\ mail' = Mail(items[t.id].yourEmail, "seen")
              /\ res' = NoRes
    /\ removed' = NoOTP
    /\ UNCHANGED <<rev, now, ticks, otpStore, verifiedEmails, claimCounts>>

\* SeenUpdated whose update also sets yourEmail to the submitter's e-mail
SeenUpdated_setOwner(t) ==
    /\ t \in Waiting("seen", "update")
    /\ \E dbOk \in BOOLEAN :
         IF ~dbOk
         THEN /\ res' = Res("seen", t.email, t.id, "", "StorageError", 500)
              /\ tasks' = Resume(t)
              /\ mail' = NoMail
              /\ UNCHANGED <<items, seenCounts>>
         ELSE IF ~Exists(t.id)
         THEN /\ res' = Res("seen", t.email, t.id, "", "NotFound", 404)
              /\ tasks' = Resume(t)
              /\ mail' = NoMail
              /\ UNCHANGED <<items, seenCounts>>
         ELSE /\ items' = [items EXCEPT ![t.id].seenBy = Append(@, Entry(t.email)),
                                        ![t.id].yourEmail = t.email]
              /\ seenCounts' = [seenCounts EXCEPT ![t.email] = t.cnt + 1]
              /\ tasks' = Resume(t) (+) SetToBag({[t EXCEPT !.pc = "mail"]})
              /\ mail' = Mail(items[t.id].yourEmail, "seen")
              /\ res' = NoRes
    /\ removed' = NoOTP
    /\ UNCHANGED <<rev, now, ticks, otpStore, verifiedEmails, claimCounts>>

\* SeenUpdated without seenCounts.set(email, seenCount + 1)
SeenUpdated_noCount(t) ==
    /\ t \in Waiting("seen", "update")
    /\ \E dbOk \in BOOLEAN :
         IF ~dbOk
         THEN /\ res' = Res("seen", t.email, t.id, "", "StorageError", 500)
              /\ tasks' = Resume(t)
              /\ mail' = NoMail
              /\ UNCHANGED items
         ELSE IF ~Exists(t.id)
         THEN /\ res' = Res("seen", t.email, t.id, "", "NotFound", 404)
              /\ tasks' = Resume(t)
              /\ mail' = NoMail
              /\ UNCHANGED items
         ELSE /\ items' = [items EXCEPT ![t.id].seenBy = Append(@, Entry(t.email))]
              /\ tasks' = Resume(t) (+) SetToBag({[t EXCEPT !.pc = "mail"]})
              /\ mail' = Mail(items[t.id].yourEmail, "seen")
              /\ res' = NoRes
    /\ removed' = NoOTP
    /\ UNCHANGED <<rev, now, ticks, otpStore, verifiedEmails, claimCounts,
                   seenCounts>>

\* the continuation of await Item.findByIdAndUpdate(id, {$push: {seenBy: ...}})
SeenUpdated(t) ==
    /\ t \in Waiting("seen", "update")
    /\ \E dbOk \in BOOLEAN :
         IF ~dbOk
         THEN /\ res' = Res("seen", t.email, t.id, "", "StorageError", 500)
              /\ tasks' = Resume(t)
              /\ mail' = NoMail
              /\ UNCHANGED <<items, seenCounts>>
         ELSE IF ~Exists(t.id)
         THEN /\ res' = Res("seen", t.email, t.id, "", "NotFound", 404)
              /\ tasks' = Resume(t)
              /\ mail' = NoMail
              /\ UNCHANGED <<items, seenCounts>>
         ELSE /\ items' = [items EXCEPT ![t.id].seenBy = Append(@, Entry(t.email))]
              /\ seenCounts' = [seenCounts EXCEPT ![t.email] = t.cnt + 1]
              /\ tasks' = Resume(t) (+) SetToBag({[t EXCEPT !.pc = "mail"]})
              /\ mail' = Mail(items[t.id].yourEmail, "seen")
              /\ res' = NoRes
    /\ removed' = NoOTP
    /\ UNCHANGED <<rev, now, ticks, otpStore, verifiedEmails, claimCounts>>

\* SeenMailed that takes the sighting out of the count again and answers 500
\* when the notification could not be sent
SeenMailed_undo(t) ==
    /\ t \in Waiting("seen", "mail")
    /\ tasks' = Resume(t)
    /\ \E sent \in BOOLEAN :
         IF sent
         THEN /\ res' = [Res("seen", t.email, t.id, "", "Ok", 200)
                           EXCEPT !.notified = TRUE]
              /\ UNCHANGED seenCounts
         ELSE /\ res' = Res("seen", t.email, t.id, "", "DeliveryFailed", 500)
              /\ seenCounts' = [seenCounts EXCEPT ![t.email] = t.cnt]
    /\ mail' = NoMail
    /\ removed' = NoOTP
    /\ UNCHANGED <<rev, now, ticks, otpStore, verifiedEmails, claimCounts, items>>

\* the continuation of await transporter.sendMail(mailOptions)
SeenMailed(t) ==
    /\ t \in Waiting("seen", "mail")
    /\ tasks' = Resume(t)
    /\ \E sent \in BOOLEAN :
         res' = [Res("seen", t.email, t.id, "", "Ok", 200) EXCEPT !.notified = sent]
    /\ mail' = NoMail
    /\ removed' = NoOTP
    /\ UNCHANGED <<rev, now, ticks, otpStore, verifiedEmails, claimCounts,
                   seenCounts, items>>

-----------------------------------------------------------------------------
(* POST /api/items/:id/claim *)

Claim(id, e) ==
    /\ IF ~ValidEmail(e)
       THEN /\ res' = Res("claim", e, id, "", "InvalidEmail", 400)
            /\ tasks' = tasks
       ELSE IF e \notin verifiedEmails
       THEN /\ res' = Res("claim", e, id, "", "NotVerified", 403)
            /\ tasks' = tasks
       ELSE IF claimCounts[e] >= 2
       THEN /\ res' = Res("claim", e, id, "", "QuotaExceeded", 400)
            /\ tasks' = tasks
       ELSE /\ CanSuspend
            /\ CanPush
            /\ tasks' = Suspend(Task("claim", "update", e, id, "", claimCounts[e], FALSE))
            /\ res' = NoRes
    /\ mail' = NoMail
    /\ removed' = NoOTP
    /\ UNCHANGED <<rev, now, ticks, otpStore, verifiedEmails, claimCounts,
                   seenCounts, items>>

\* ClaimUpdated that counts the claim before it looks at the result of the
\* update
ClaimUpdated_countOnMiss(t) ==
    /\ t \in Waiting("claim", "update")
    /\ \E dbOk \in BOOLEAN :
         IF ~dbOk
         THEN /\ res' = Res("claim", t.email, t.id, "", "StorageError", 500)
              /\ tasks' = Resume(t)
              /\ mail' = NoMail
              /\ UNCHANGED <<items, claimCounts>>
         ELSE IF ~Exists(t.id)
         THEN /\ res' = Res("claim", t.email, t.id, "", "NotFound", 404)
              /\ claimCounts' = [claimCounts EXCEPT ![t.email] = t.cnt + 1]
              /\ tasks' = Resume(t)
              /\ mail' = NoMail
              /\ UNCHANGED items
         ELSE /\ items' = [items EXCEPT ![t.id].claims = Append(@, Entry(t.email))]
              /\ claimCounts' = [claimCounts EXCEPT ![t.email] = t.cnt + 1]
              /\ tasks' = Resume(t) (+) SetToBag({[t EXCEPT !.pc = "mail"]})
              /\ mail' = Mail(items[t.id].yourEmail, "claim")
              /\ res' = NoRes
    /\ removed' = NoOTP
    /\ UNCHANGED <<rev, now, ticks, otpStore, verifiedEmails, seenCounts>>

\* the continuation of await Item.findByIdAndUpdate(id, {$push: {claims: ...}})
ClaimUpdated(t) ==
    /\ t \in Waiting("claim", "update")
    /\ \E dbOk \in BOOLEAN :
         IF ~dbOk
         THEN /\ res' = Res("claim", t.email, t.id, "", "StorageError", 500)
              /\ tasks' = Resume(t)
              /\ mail' = NoMail
              /\ UNCHANGED <<items, claimCounts>>
         ELSE IF ~Exists(t.id)
         THEN /\ res' = Res("claim", t.email, t.id, "", "NotFound", 404)
              /\ tasks' = Resume(t)
              /\ mail' = NoMail
              /\ UNCHANGED <<items, claimCounts>>
         ELSE /\ items' = [items EXCEPT ![t.id].claims = Append(@, Entry(t.email))]
              /\ claimCounts' = [claimCounts EXCEPT ![t.email] = t.cnt + 1]
              /\ tasks' = Resume(t) (+) SetToBag({[t EXCEPT !.pc = "mail"]})
              /\ mail' = Mail(items[t.id].yourEmail, "claim")
              /\ res' = NoRes
    /\ removed' = NoOTP
    /\ UNCHANGED <<rev, now, ticks, otpStore, verifiedEmails, seenCounts>>

\* the continuation of await transporter.sendMail(mailOptions)
ClaimMailed(t) ==
    /\ t \in Waiting("claim", "mail")
    /\ tasks' = Resume(t)
    /\ \E sent \in BOOLEAN :
         res' = [Res("claim", t.email, t.id, "", "Ok", 200) EXCEPT !.notified = sent]
    /\ mail' = NoMail
    /\ removed' = NoOTP
    /\ UNCHANGED <<rev, now, ticks, otpStore, verifiedEmails, claimCounts,
                   seenCounts, items>>

-----------------------------------------------------------------------------
(* POST /api/items/:id/resolve *)

Resolve(id, e) ==
    /\ HasResolve(rev)
    /\ IF rev = "p2" /\ e = NoEmail
       THEN /\ res' = Res("resolve", e, id, "", "ValidationError", 400)
            /\ tasks' = tasks
       ELSE /\ CanSuspend
            /\ tasks' = Suspend(Task("resolve", "find", e, id, "", 0, FALSE))
            /\ res' = NoRes
    /\ mail' = NoMail
    /\ removed' = NoOTP
    /\ UNCHANGED <<rev, now, ticks, otpStore, verifiedEmails, claimCounts,
                   seenCounts, items>>

\* ResolveFound that removes the verification of a requester it refuses
ResolveFound_dropOnRefusal(t) ==
    /\ t \in Waiting("resolve", "find")
    /\ \E dbOk \in BOOLEAN :
         IF ~dbOk
         THEN /\ res' = Res("resolve", t.email, t.id, "", "StorageError", 500)
              /\ tasks' = Resume(t)
              /\ UNCHANGED verifiedEmails
         ELSE IF ~Exists(t.id)
         THEN /\ res' = Res("resolve", t.email, t.id, "", "NotFound", 404)
              /\ tasks' = Resume(t)
              /\ UNCHANGED verifiedEmails
         ELSE IF t.email # items[t.id].yourEmail
         THEN /\ res' = Res("resolve", t.email, t.id, "", "Unauthorized", 403)
              /\ tasks' = Resume(t)
              /\ verifiedEmails' = verifiedEmails \ {t.email}
         ELSE IF ResolveChecksVerified(rev) /\ t.email \notin verifiedEmails
         THEN /\ res' = Res("resolve", t.email, t.id, "", "NotVerified", 403)
              /\ tasks' = Resume(t)
              /\ UNCHANGED verifiedEmails
         ELSE /\ tasks' = Resume(t) (+) SetToBag({[t EXCEPT !.pc = "save"]})
              /\ res' = NoRes
              /\ UNCHANGED verifiedEmails
    /\ mail' = NoMail
    /\ removed' = NoOTP
    /\ UNCHANGED <<rev, now, ticks, otpStore, claimCounts, seenCounts, items>>

\* ResolveFound that also asks that the OTP record of the requester be bound
\* to the item being resolved
ResolveFound_bound(t) ==
    /\ t \in Waiting("resolve", "find")
    /\ \E dbOk \in BOOLEAN :
         IF ~dbOk
         THEN /\ res' = Res("resolve", t.email, t.id, "", "StorageError", 500)
              /\ tasks' = Resume(t)
         ELSE IF ~Exists(t.id)
         THEN /\ res' = Res("resolve", t.email, t.id, "", "NotFound", 404)
              /\ tasks' = Resume(t)
         ELSE IF t.email # items[t.id].yourEmail
         THEN /\ res' = Res("resolve", t.email, t.id, "", "Unauthorized", 403)
              /\ tasks' = Resume(t)
         ELSE IF /\ ResolveChecksVerified(rev)
                 /\ \/ t.email \notin verifiedEmails
                    \/ otpStore[t.email].itemId # t.id
         THEN /\ res' = Res("resolve", t.email, t.id, "", "NotVerified", 403)
              /\ tasks' = Resume(t)
         ELSE /\ tasks' = Resume(t) (+) SetToBag({[t EXCEPT !.pc = "save"]})
              /\ res' = NoRes
    /\ mail' = NoMail
    /\ removed' = NoOTP
    /\ UNCHANGED <<rev, now, ticks, otpStore, verifiedEmails, claimCounts,
                   seenCounts, items>>

\* the continuation of await Item.findById(itemId)
ResolveFound(t) ==
    /\ t \in Waiting("resolve", "find")
    /\ \E dbOk \in BOOLEAN :
         IF ~dbOk
         THEN /\ res' = Res("resolve", t.email, t.id, "", "StorageError", 500)
              /\ tasks' = Resume(t)
         ELSE IF ~Exists(t.id)
         THEN /\ res' = Res("resolve", t.email, t.id, "", "NotFound", 404)
              /\ tasks' = Resume(t)
         ELSE IF t.email # items[t.id].yourEmail
         THEN /\ res' = Res("resolve", t.email, t.id, "", "Unauthorized", 403)
              /\ tasks' = Resume(t)
         ELSE IF ResolveChecksVerified(rev) /\ t.email \notin verifiedEmails
         THEN /\ res' = Res("resolve", t.email, t.id, "", "NotVerified", 403)
              /\ tasks' = Resume(t)
         ELSE /\ tasks' = Resume(t) (+) SetToBag({[t EXCEPT !.pc = "save"]})
              /\ res' = NoRes
    /\ mail' = NoMail
    /\ removed' = NoOTP
    /\ UNCHANGED <<rev, now, ticks, otpStore, verifiedEmails, claimCounts,
                   seenCounts, items>>

\* item.status = 'resolved'; the continuation of await item.save()
ResolveSaved(t) ==
    /\ t \in Waiting("resolve", "save")
    /\ \E dbOk \in BOOLEAN :
         IF ~dbOk
         THEN /\ res' = Res("resolve", t.email, t.id, "", "StorageError", 500)
              /\ tasks' = Resume(t)
              /\ mail' = NoMail
              /\ UNCHANGED <<items, verifiedEmails>>
         ELSE /\ items' = [items EXCEPT ![t.id].status = "resolved"]
              /\ verifiedEmails' = IF ResolveChecksVerified(rev)
                                   THEN verifiedEmails \ {t.email}
                                   ELSE verifiedEmails
              /\ tasks' = Resume(t) (+) SetToBag({[t EXCEPT !.pc = "mail"]})
              /\ mail' = Mail(t.email, "resolved")
              /\ res' = NoRes
    /\ removed' = NoOTP
    /\ UNCHANGED <<rev, now, ticks, otpStore, claimCounts, seenCounts>>

\* the continuation of await transporter.sendMail(mailOptions)
ResolveMailed(t) ==
    /\ t \in Waiting("resolve", "mail")
    /\ tasks' = Resume(t)
    /\ \E sent \in BOOLEAN :
         res' = [Res("resolve", t.email, t.id, "", "Ok", 200)
                   EXCEPT !.notified = IF rev = "s1" THEN sent ELSE FALSE]
    /\ mail' = NoMail
    /\ removed' = NoOTP
    /\ UNCHANGED <<rev, now, ticks, otpStore, verifiedEmails, claimCounts,
                   seenCounts, items>>

-----------------------------------------------------------------------------
(* The server *)

\* the documents the collection may hold when the server starts
InitialItems == { << >>,
                  << Doc("lost", "A", << >>, << >>) >>,
                  << Doc("lost", "A", << >>, << >>), Doc("found", "A", << >>, << >>) >>,
                  << Doc("lost", "A", << >>, << >>), Doc("found", "B", << >>, << >>) >> }

\* the server starts as revision r on collection db
Init(R, DB) ==
    /\ rev \in R
    /\ now = 0
    /\ ticks = 0
    /\ otpStore = [e \in Emails |-> NoOTP]
    /\ verifiedEmails = {}
    /\ claimCounts = [e \in Emails |-> 0]
    /\ seenCounts = [e \in Emails |-> 0]
    /\ items \in DB
    /\ tasks = EmptyBag
    /\ res = NoRes
    /\ mail = NoMail
    /\ removed = NoOTP

Ids == 1..MaxItems

\* the OTP requests and their continuations, for e-mails E and draws C
OtpRequests(E, C) ==
    \/ \E e \in E, otp \in C : RequestOtp(e, otp)
    \/ \E t \in BagToSet(tasks) : RequestOtpSent(t)
    \/ \E id \in Ids, e \in E : ItemRequestOtp(id, e)
    \/ \E t \in BagToSet(tasks), otp \in C : ItemRequestOtpFound(t, otp)
    \/ \E t \in BagToSet(tasks) : ItemRequestOtpSent(t)

(* The OTP protocol under a moving clock. *)
InitOtp == Init(Revs, { db \in InitialItems : Len(db) <= 1 })

NextOtp ==
    \/ Tick
    \/ OtpRequests({"A", "B"}, generateOTP)
    \/ RequestOtp(NoEmail, "100000")
    \/ ItemRequestOtp(1, NoEmail)
    \/ \E e \in {"A", "B"}, otp \in PresentedCodes : VerifyOtp(e, otp)
    \/ VerifyOtp(NoEmail, "100000")
    \/ VerifyOtp("A", "")

SpecOtp == InitOtp /\ [][NextOtp]_vars

(* Verification and item creation. *)
InitCreate == Init(Revs, { db \in InitialItems : Len(db) <= 1 })

NextCreate ==
    \/ OtpRequests({"A", "X"}, {"100000"})
    \/ \E e \in {"A", "X"} : VerifyOtp(e, "100000")
    \/ \E s \in BodyStatuses \ {""} : CreateItem("A", s, TRUE, FALSE, 0)
    \/ CreateItem("X", "lost", TRUE, FALSE, 0)
    \/ CreateItem("A", "lost", TRUE, TRUE, 0)
    \/ CreateItem("A", "lost", TRUE, FALSE, 1)
    \/ CreateItem("A", "lost", FALSE, FALSE, 0)
    \/ CreateItem("A", "", TRUE, FALSE, 0)
    \/ CreateItem(NoEmail, "lost", TRUE, FALSE, 0)
    \/ \E t \in BagToSet(tasks) : CreateItemUploaded(t)
    \/ \E t \in BagToSet(tasks) : CreateItemSaved(t)

SpecCreate == InitCreate /\ [][NextCreate]_vars

(* Verification and resolution. *)
InitResolve == Init(Revs \ {"s2"}, { db \in InitialItems : Len(db) >= 1 })

NextResolve ==
    \/ OtpRequests({"A", "B"}, {"100000"})
    \/ \E e \in {"A", "B"} : VerifyOtp(e, "100000")
    \/ \E id \in Ids, e \in {"A", "B"} : Resolve(id, e)
    \/ Resolve(1, NoEmail)
    \/ \E t \in BagToSet(tasks) : ResolveFound(t)
    \/ \E t \in BagToSet(tasks) : ResolveSaved(t)
    \/ \E t \in BagToSet(tasks) : ResolveMailed(t)

SpecResolve == InitResolve /\ [][NextResolve]_vars

(* Verification, sightings and claims. *)
InitSubmit == Init({"s1", "s2"}, { db \in InitialItems : Len(db) = 1 })

NextSubmit ==
    \/ \E otp \in {"100000"} : RequestOtp("B", otp)
    \/ \E t \in BagToSet(tasks) : RequestOtpSent(t)
    \/ VerifyOtp("B", "100000")
    \/ \E id \in 1..(Len(items) + 1), e \in Emails : Seen(id, e)
    \/ Seen(1, NoEmail)
    \/ \E t \in BagToSet(tasks) : SeenUpdated(t)
    \/ \E t \in BagToSet(tasks) : SeenMailed(t)
    \/ \E id \in 1..(Len(items) + 1), e \in Emails : Claim(id, e)
    \/ Claim(1, NoEmail)
    \/ \E t \in BagToSet(tasks) : ClaimUpdated(t)
    \/ \E t \in BagToSet(tasks) : ClaimMailed(t)

SpecSubmit == InitSubmit /\ [][NextSubmit]_vars

(* Sightings and claims when the clients send one request at a time: a
   request arrives only when no other request is suspended. *)
InitSerial == Init({"s1", "s2"}, { db \in InitialItems : Len(db) = 1 })

NextSerial ==
    \/ /\ tasks = EmptyBag
       /\ \/ \E otp \in {"100000"} : RequestOtp("B", otp)
          \/ VerifyOtp("B", "100000")
          \/ \E id \in 1..(Len(items) + 1), e \in Emails : Seen(id, e)
          \/ \E id \in 1..(Len(items) + 1), e \in Emails : Claim(id, e)
    \/ \E t \in BagToSet(tasks) : RequestOtpSent(t)
    \/ \E t \in BagToSet(tasks) : SeenUpdated(t)
    \/ \E t \in BagToSet(tasks) : SeenMailed(t)
    \/ \E t \in BagToSet(tasks) : ClaimUpdated(t)
    \/ \E t \in BagToSet(tasks) : ClaimMailed(t)

SpecSerial == InitSerial /\ [][NextSerial]_vars

(* Sightings, claims and resolution of one item. *)
InitItem == Init(Revs \ {"s2"}, { db \in InitialItems : Len(db) = 1 })

NextItem ==
    \/ OtpRequests({"A"}, {"100000"})
    \/ VerifyOtp("A", "100000")
    \/ Seen(1, "B")
    \/ \E t \in BagToSet(tasks) : SeenUpdated(t)
    \/ \E t \in BagToSet(tasks) : SeenMailed(t)
    \/ Claim(1, "A")
    \/ \E t \in BagToSet(tasks) : ClaimUpdated(t)
    \/ \E t \in BagToSet(tasks) : ClaimMailed(t)
    \/ \E e \in {"A", "B"} : Resolve(1, e)
    \/ \E t \in BagToSet(tasks) : ResolveFound(t)
    \/ \E t \in BagToSet(tasks) : ResolveSaved(t)
    \/ \E t \in BagToSet(tasks) : ResolveMailed(t)

SpecItem == InitItem /\ [][NextItem]_vars

(* Creation and resolution after one OTP request: the reporter asks for an
   OTP once, as the first request the server receives, so that at most one
   verification succeeds. *)
InitOnce ==
    \/ Init({"s1"}, { << >> })
    \/ Init({"p1", "p2"}, { db \in InitialItems : Len(db) = 1 })

\* the documents of the collection when the server started
InitialLen == IF rev = "s1" THEN 0 ELSE 1

NextOnce ==
    \/ /\ tasks = EmptyBag
       /\ res = NoRes
       /\ \/ RequestOtp("A", "100000")
          \/ ItemRequestOtp(1, "A")
    \/ \E t \in BagToSet(tasks) : RequestOtpSent(t)
    \/ \E t \in BagToSet(tasks) : ItemRequestOtpFound(t, "100000")
    \/ \E t \in BagToSet(tasks) : ItemRequestOtpSent(t)
    \/ VerifyOtp("A", "100000")
    \/ \E file \in BOOLEAN : CreateItem("A", "lost", TRUE, file, 0)
    \/ \E t \in BagToSet(tasks) : CreateItemUploaded(t)
    \/ \E t \in BagToSet(tasks) : CreateItemSaved(t)
    \/ Resolve(1, "A")
    \/ \E t \in BagToSet(tasks) : ResolveFound(t)
    \/ \E t \in BagToSet(tasks) : ResolveSaved(t)
    \/ \E t \in BagToSet(tasks) : ResolveMailed(t)

SpecOnce == InitOnce /\ [][NextOnce]_vars

(* Creation and resolution when every OTP is requested for item 1: the
   reporter A owns item 1, asks for OTPs for item 1 only, and creates or
   resolves other items. *)
InitBound == Init({"p1", "p2"}, { db \in InitialItems : Len(db) = 1 })

NextBound ==
    \/ ItemRequestOtp(1, "A")
    \/ \E t \in BagToSet(tasks) : ItemRequestOtpFound(t, "100000")
    \/ \E t \in BagToSet(tasks) : ItemRequestOtpSent(t)
    \/ VerifyOtp("A", "100000")
    \/ CreateItem("A", "lost", TRUE, FALSE, 0)
    \/ \E t \in BagToSet(tasks) : CreateItemSaved(t)
    \/ \E id \in Ids : Resolve(id, "A")
    \/ \E t \in BagToSet(tasks) : ResolveFound(t)
    \/ \E t \in BagToSet(tasks) : ResolveSaved(t)
    \/ \E t \in BagToSet(tasks) : ResolveMailed(t)

SpecBound == InitBound /\ [][NextBound]_vars

-----------------------------------------------------------------------------
(* Properties of the OTP store *)

\* the last step completed an OTP request for e with 'OTP sent'
Issued(e) ==
    /\ res.op \in {"requestOtp", "itemRequestOtp"}
    /\ res.kind = "Ok"
    /\ res.email = e

\* the last step answered a verification of code c for e with kind k
Verified(e, c, k) ==
    /\ res.op = "verifyOtp"
    /\ res.email = e
    /\ res.arg = c
    /\ res.kind = k

\* C1 as stated: once a new OTP has been issued for E, the code of the
\* record it replaced no longer verifies for E.
C1_OldCodeNeverVerifies ==
    \A e \in Emails :
        (Issued(e) /\ removed # NoOTP) => VerifyKind(e, removed.otp) # "Ok"

\* C1 amended: once a new OTP has been issued for E, the code of the record
\* it replaced no longer verifies for E, unless the new code is the same
\* six digits as the old one.
C1_OldCodeInvalidated ==
    \A e \in Emails :
        (Issued(e) /\ removed # NoOTP /\ removed.otp # res.arg)
            => VerifyKind(e, removed.otp) # "Ok"

\* an issuance has just replaced a live record that holds another code
C1_Witness ==
    \E e \in Emails :
        /\ Issued(e)
        /\ removed # NoOTP
        /\ removed.otp # res.arg
        /\ now <= removed.expiry
        /\ VerifyKind(e, res.arg) = "Ok"

\* C2: a successful verification of code c for E deletes the record of E;
\* a verification for an e-mail without a record answers 'No OTP found' and
\* changes nothing; and a record only appears by a completed OTP request, so
\* one issued code verifies at most once.
C2_ConsumedOnce ==
    /\ [](\A e \in Emails : \A c \in PresentedCodes :
            Verified(e, c, "Ok") => (otpStore[e] = NoOTP /\ removed.otp = c))
    /\ [][\A e \in Emails :
            (otpStore[e] = NoOTP /\ res'.op = "verifyOtp" /\ res'.email = e
               /\ res'.arg # "")
            => (res'.kind = "NotFound" /\ verifiedEmails' = verifiedEmails
                  /\ otpStore' = otpStore)]_vars
    /\ [][\A e \in Emails :
            (otpStore[e] = NoOTP /\ otpStore'[e] # NoOTP)
            => (res'.op \in {"requestOtp", "itemRequestOtp"} /\ res'.kind = "Ok"
                  /\ res'.email = e)]_vars

\* a second verification with an issued code, after a successful one, has
\* just been answered 'No OTP found'
C2_Witness ==
    \E e \in Emails : \E c \in generateOTP :
        /\ Verified(e, c, "NotFound")
        /\ e \in verifiedEmails

\* the step is a verification for e that presents the stored code
VerifiesStoredCode(e) ==
    /\ res'.op = "verifyOtp"
    /\ res'.email = e
    /\ otpStore[e] # NoOTP
    /\ res'.arg = otpStore[e].otp

\* C3 as stated: with the correct code, verification answers 'expired' when
\* now >= expiry (the boundary included) and succeeds when now < expiry.
C3_ExpiredAtBoundary ==
    [][\A e \in Emails :
         VerifiesStoredCode(e)
         => res'.kind = IF now >= otpStore[e].expiry THEN "Expired" ELSE "Ok"]_vars

\* C3 amended: with the correct code, verification answers 'expired' when
\* now > expiry and succeeds when now <= expiry: at now = expiry, which is
\* 600000 ms after the record was stored, the code still verifies.
C3_ExpiredAfterBoundary ==
    [][\A e \in Emails :
         VerifiesStoredCode(e)
         => res'.kind = IF now > otpStore[e].expiry THEN "Expired" ELSE "Ok"]_vars

\* a verification has just succeeded exactly at the expiry of its record
C3_Witness ==
    \E e \in Emails :
        /\ res.op = "verifyOtp"
        /\ res.email = e
        /\ res.kind = "Ok"
        /\ removed.otp = res.arg
        /\ removed.expiry = now

\* the request {email, otp} that a verification step has just answered meets a
\* record that is there
Presented ==
    /\ res'.op = "verifyOtp"
    /\ res'.email \in Emails
    /\ res'.arg # ""
    /\ otpStore[res'.email] # NoOTP

\* C13: a verification that presents another code than the stored one, not
\* after the expiry, is answered 'Invalid OTP' and leaves the OTP store and the
\* verified set as they were; the stored code presented then, not after the
\* expiry, is answered 200.
C13_MismatchKeepsRecord ==
    /\ [][(Presented /\ now <= otpStore[res'.email].expiry
             /\ res'.arg # otpStore[res'.email].otp)
          => /\ res'.kind = "Mismatch"
             /\ otpStore' = otpStore
             /\ verifiedEmails' = verifiedEmails]_vars
    /\ [][(res.op = "verifyOtp" /\ res.kind = "Mismatch" /\ Presented
             /\ res'.email = res.email /\ now <= otpStore[res.email].expiry
             /\ res'.arg = otpStore[res.email].otp)
          => (res'.kind = "Ok" /\ res.email \in verifiedEmails')]_vars

\* a wrong code has just been refused, and the record is still there and has
\* not expired
C13_Witness ==
    /\ res.op = "verifyOtp"
    /\ res.kind = "Mismatch"
    /\ otpStore[res.email] # NoOTP
    /\ otpStore[res.email].otp # res.arg
    /\ now <= otpStore[res.email].expiry
    /\ res.email \notin verifiedEmails

\* C14: a verification that comes after the expiry of the record is answered
\* 'OTP expired' whether or not the code is the stored one, deletes the record
\* and adds nothing to the verified set; the next verification for that
\* e-mail, with no OTP request completed in between, is answered 'No OTP found'.
C14_ExpiredDeletes ==
    /\ [][(Presented /\ now > otpStore[res'.email].expiry)
          => /\ res'.kind = "Expired"
             /\ otpStore' = [otpStore EXCEPT ![res'.email] = NoOTP]
             /\ verifiedEmails' = verifiedEmails]_vars
    /\ [][(res.op = "verifyOtp" /\ res.kind = "Expired"
             /\ res'.op = "verifyOtp" /\ res'.email = res.email /\ res'.arg # "")
          => res'.kind = "NotFound"]_vars

\* the stored code was presented after the expiry: it has been refused and the
\* record is gone
C14_Witness ==
    /\ res.op = "verifyOtp"
    /\ res.kind = "Expired"
    /\ removed.otp = res.arg
    /\ now > removed.expiry
    /\ otpStore[res.email] = NoOTP
    /\ res.email \notin verifiedEmails

\* C15: when the lookup of an item-bound OTP request returns, a request whose
\* e-mail is not the reporter's is answered 403 and one for an item that does
\* not exist is answered 404 (unless the lookup itself failed); either way the
\* request ends there: no e-mail is sent and the OTP store is as it was.
C15_BoundOtpRefused ==
    [][\A t \in Waiting("itemRequestOtp", "find") :
         (CopiesIn(t, tasks') < CopiesIn(t, tasks)
            /\ (~Exists(t.id) \/ t.email # items[t.id].yourEmail))
         => /\ res'.op = "itemRequestOtp"
            /\ res'.email = t.email
            /\ res'.kind \in {IF Exists(t.id) THEN "Unauthorized" ELSE "NotFound",
                              "StorageError"}
            /\ res'.kind = "Unauthorized" => res'.http = 403
            /\ res'.kind = "NotFound" => res'.http = 404
            /\ tasks' = Resume(t)
            /\ mail' = NoMail
            /\ otpStore' = otpStore
            /\ verifiedEmails' = verifiedEmails]_vars

\* B has just been refused an OTP for the item of A, and has no record
C15_Witness ==
    /\ res.op = "itemRequestOtp"
    /\ res.kind = "Unauthorized"
    /\ res.email = "B"
    /\ Exists(res.id)
    /\ items[res.id].yourEmail = "A"
    /\ otpStore["B"] = NoOTP
    /\ mail = NoMail

\* C16: an OTP request that is answered 500 because the e-mail could not be
\* sent leaves the code it generated stored for that e-mail, with ten minutes
\* to run.
C16_RecordSurvivesDeliveryFailure ==
    (res.op \in {"requestOtp", "itemRequestOtp"} /\ res.kind = "DeliveryFailed")
    => /\ otpStore[res.email].otp = res.arg
       /\ otpStore[res.email].expiry = now + OTP_TTL

\* C20: an e-mail becomes a member of the verified set only in a verification
\* step that is answered 200 and presents the code stored for that e-mail, not
\* after its expiry; no other step, and no refused verification, adds a
\* member.
C20_VerifiedOnlyByVerify ==
    [][\A e \in verifiedEmails' \ verifiedEmails :
         /\ res'.op = "verifyOtp"
         /\ res'.kind = "Ok"
         /\ res'.email = e
         /\ otpStore[e] # NoOTP
         /\ res'.arg = otpStore[e].otp
         /\ now <= otpStore[e].expiry
         /\ verifiedEmails' = verifiedEmails \cup {e}]_vars

\* B, who was not verified, has just become the second member of the verified
\* set by presenting the stored code
C20_Witness ==
    /\ res.op = "verifyOtp"
    /\ res.kind = "Ok"
    /\ res.email = "B"
    /\ res.arg = removed.otp
    /\ verifiedEmails = {"A", "B"}

\* C21: the codes that an OTP request can generate are exactly the integers
\* from 100000 to 999999, both included: every stored code is one of them, and
\* each of them (of those the model draws), 999999 too, can be generated.
C21_CodeRange ==
    LET Range == { ToString(n) : n \in CodeSamples \cap (100000 .. 999999) }
    IN  /\ \A e \in Emails : otpStore[e] # NoOTP => otpStore[e].otp \in Range
        /\ \A c \in Range : c \in generateOTP

-----------------------------------------------------------------------------
(* Properties of the submission counters *)

\* a step in which a request arrives: it is suspended at its first await, or
\* it is answered before any await
Arrival ==
    \/ BagCardinality(tasks') = BagCardinality(tasks) + 1
    \/ (tasks' = tasks /\ res'.op # "none")

\* how many elements of sequence q carry e-mail e
RECURSIVE CountIn(_, _)
CountIn(q, e) ==
    IF q = << >> THEN 0
    ELSE (IF Head(q).email = e THEN 1 ELSE 0) + CountIn(Tail(q), e)

\* the sightings (k = "seen") or claims (k = "claim") of e that the first n
\* documents hold
RECURSIVE Accepted(_, _, _)
Accepted(k, e, n) ==
    IF n = 0 THEN 0
    ELSE CountIn(IF k = "seen" THEN items[n].seenBy ELSE items[n].claims, e)
           + Accepted(k, e, n - 1)

\* C4: for each kind and each e-mail, at most 2 submissions of that kind are
\* ever accepted (appended to a document), whatever the interleaving.
C4_AtMostTwoAccepted ==
    \A e \in Emails : \A k \in {"seen", "claim"} :
        Accepted(k, e, Len(items)) <= 2

\* C10: a sighting or a claim whose e-mail does not match the pattern is
\* answered 'Valid Chitkara University email is required' at once and leaves
\* both counters, the verified set, the documents and the suspended requests
\* as they were.
C10_InvalidEmailRejected ==
    [][Arrival =>
       \A e \in (Emails \cup {NoEmail}) \ Institutional : \A id \in Ids :
         (Seen(id, e) \/ Claim(id, e))
         => /\ res'.kind = "InvalidEmail"
            /\ res'.http = 400
            /\ res'.email = e
            /\ seenCounts' = seenCounts
            /\ claimCounts' = claimCounts
            /\ verifiedEmails' = verifiedEmails
            /\ items' = items
            /\ tasks' = tasks]_vars

\* the claim of reporter@inst.edu on the item of A has just been refused
C10_Witness ==
    /\ res.op = "claim"
    /\ res.email = "X"
    /\ res.kind = "InvalidEmail"
    /\ Exists(res.id)
    /\ items[res.id].yourEmail = "A"
    /\ "X" \notin Institutional
    /\ {"A", "B"} \subseteq Institutional

\* C11: when requests come one after another, a sighting of an e-mail that
\* has fewer than two accepted sightings is taken in, appended to the item and
\* notified to the reporter, and answered 200; once two are accepted the next
\* is refused with 400 (maximum number of submissions), appends nothing and sends
\* no notification.
C11_SerialQuota ==
    /\ [](\A e \in Emails : /\ Accepted("seen", e, Len(items)) = seenCounts[e]
                            /\ seenCounts[e] <= 2)
    /\ [][\A e \in Institutional : \A id \in Ids :
            Seen(id, e)
            => IF Accepted("seen", e, Len(items)) < 2
               THEN tasks' = Suspend(Task("seen", "update", e, id, "",
                                          seenCounts[e], FALSE))
               ELSE /\ res'.kind = "QuotaExceeded"
                    /\ res'.http = 400
                    /\ items' = items
                    /\ seenCounts' = seenCounts
                    /\ mail' = NoMail
                    /\ tasks' = tasks]_vars
    /\ [][\A t \in Waiting("seen", "update") :
            (SeenUpdated(t) /\ Exists(t.id) /\ res'.kind # "StorageError")
            => /\ items'[t.id].seenBy = Append(items[t.id].seenBy, Entry(t.email))
               /\ mail' = Mail(items[t.id].yourEmail, "seen")]_vars
    /\ [][\A t \in Waiting("seen", "mail") :
            SeenMailed(t) => (res'.kind = "Ok" /\ res'.http = 200)]_vars

\* B has two accepted sightings, both counted, and a third has just been
\* refused
C11_Witness ==
    /\ res.op = "seen"
    /\ res.email = "B"
    /\ res.kind = "QuotaExceeded"
    /\ Accepted("seen", "B", Len(items)) = 2
    /\ seenCounts["B"] = 2
    /\ mail = NoMail

\* C12: a verification is used up by the first privileged action that
\* consults it: when a claim of e is accepted (appended to an item), e is no
\* longer in the verified set.
C12_ClaimConsumesVerification ==
    [][\A e \in Emails :
         Accepted("claim", e, Len(items))' > Accepted("claim", e, Len(items))
         => e \notin verifiedEmails']_vars

C18_ResolvedItemFrozen ==
    [][\A id \in 1..Len(items) :
         items[id].status = "resolved"
         => /\ items'[id].seenBy = items[id].seenBy
            /\ items'[id].claims = items[id].claims]_vars

\* C23: no step changes the reporter e-mail of a document: sightings, claims,
\* resolutions, OTP requests and verifications leave yourEmail of every
\* document as it was, and no document disappears.
C23_ReporterImmutable ==
    [][/\ Len(items') >= Len(items)
       /\ \A i \in 1..Len(items) : items'[i].yourEmail = items[i].yourEmail]_vars

\* the item of A has been seen by B, claimed and resolved, and is still the
\* item of A
C23_Witness ==
    /\ Len(items) = 1
    /\ items[1].yourEmail = "A"
    /\ items[1].status = "resolved"
    /\ CountIn(items[1].seenBy, "B") >= 1
    /\ Len(items[1].claims) >= 1

\* C25: no step lowers a counter of sightings or of claims, whatever the
\* interleaving of the requests.
C25_CountersMonotone ==
    [][\A e \in Emails : /\ seenCounts'[e] >= seenCounts[e]
                         /\ claimCounts'[e] >= claimCounts[e]]_vars

\* C26: every counter of sightings and of claims is 0, 1 or 2 in every
\* reachable state, whatever the interleaving of the requests.
C26_CountersInRange ==
    \A e \in Emails : seenCounts[e] \in 0..2 /\ claimCounts[e] \in 0..2

\* overlapping requests of B have put three sightings in the item, and the
\* counter of B stands at 2
C26_Witness ==
    /\ seenCounts["B"] = 2
    /\ Accepted("seen", "B", Len(items)) = 3

\* C29: a counter never exceeds the number of entries of its kind and e-mail
\* that the documents hold: it may count fewer submissions than were accepted,
\* never more.
C29_CounterNeverOvercounts ==
    \A e \in Emails :
        /\ seenCounts[e] <= Accepted("seen", e, Len(items))
        /\ claimCounts[e] <= Accepted("claim", e, Len(items))

\* two overlapping sightings of B are both in the item and the counter of B
\* stands at 1
C29_Witness ==
    /\ Accepted("seen", "B", Len(items)) = 2
    /\ seenCounts["B"] = 1
    /\ InFlight("seen") = 0

\* C30: a sighting or a claim that is answered 'Item not found' or fails in
\* the database leaves both counters and the documents as they were, and a
\* counter changes only in a step that appends an entry of its kind and e-mail.
C30_FailureSpendsNoQuota ==
    /\ [][(res'.op \in {"seen", "claim"} /\ res'.kind \in {"NotFound", "StorageError"})
          => /\ seenCounts' = seenCounts
             /\ claimCounts' = claimCounts
             /\ items' = items]_vars
    /\ [][\A e \in Emails :
            /\ seenCounts'[e] # seenCounts[e]
               => Accepted("seen", e, Len(items))' = Accepted("seen", e, Len(items)) + 1
            /\ claimCounts'[e] # claimCounts[e]
               => Accepted("claim", e, Len(items))' = Accepted("claim", e, Len(items)) + 1]_vars

\* a sighting of B for an item that does not exist has just been answered 404
\* and B has no sighting counted
C30_Witness ==
    /\ res.op = "seen"
    /\ res.kind = "NotFound"
    /\ res.email = "B"
    /\ ~Exists(res.id)
    /\ seenCounts["B"] = 0

-----------------------------------------------------------------------------
(* Properties of resolution *)

\* C5: the status of a document becomes 'resolved' only by a resolve request
\* whose e-mail is the reporter's and is in the verified set at that moment.
C5_ResolveNeedsVerification ==
    [][\A id \in 1..Len(items) :
         (items[id].status # "resolved" /\ items'[id].status = "resolved")
         => \E t \in Waiting("resolve", "save") :
               /\ t.id = id
               /\ t.email = items[id].yourEmail
               /\ t.email \in verifiedEmails]_vars

\* C6: a resolve request that finds the document already resolved does not go
\* on to save it and report success (it is answered with a conflict).
C6_ResolvedItemConflicts ==
    [][\A t \in Waiting("resolve", "find") :
         (Exists(t.id) /\ items[t.id].status = "resolved")
         => tasks' # Resume(t) (+) SetToBag({[t EXCEPT !.pc = "save"]})]_vars

\* C33: a resolve request that is answered 'Item not found', unauthorized or
\* not verified leaves the documents, the verified set, the OTP store and the
\* counters as they were; and the answer is decided in this order: the item
\* does not exist, the requester is not the reporter, the requester is not
\* verified.
C33_RefusedResolveChangesNothing ==
    /\ [][(res'.op = "resolve"
             /\ res'.kind \in {"NotFound", "Unauthorized", "NotVerified"})
          => /\ items' = items
             /\ verifiedEmails' = verifiedEmails
             /\ otpStore' = otpStore
             /\ seenCounts' = seenCounts
             /\ claimCounts' = claimCounts]_vars
    /\ [][\A t \in Waiting("resolve", "find") :
            (CopiesIn(t, tasks') < CopiesIn(t, tasks) /\ res'.kind # "StorageError")
            => res'.kind = IF ~Exists(t.id) THEN "NotFound"
                           ELSE IF t.email # items[t.id].yourEmail THEN "Unauthorized"
                           ELSE IF ResolveChecksVerified(rev)
                                   /\ t.email \notin verifiedEmails THEN "NotVerified"
                           ELSE "none"]_vars

\* B holds a verification and has just been refused the resolution of an item
\* of A, which is not resolved; B is still verified
C33_Witness ==
    /\ ResolveChecksVerified(rev)
    /\ res.op = "resolve"
    /\ res.kind = "Unauthorized"
    /\ res.email = "B"
    /\ "B" \in verifiedEmails
    /\ items[res.id].yourEmail = "A"
    /\ items[res.id].status # "resolved"

\* the resolve requests for document id that have saved it and not yet
\* answered
Resolving(id) ==
    BagCardinality([t \in { x \in Waiting("resolve", "mail") : x.id = id }
                      |-> CopiesIn(t, tasks)])

\* C27: where resolution needs a verification, resolve requests that follow
\* one verification never both get past the save of the same document, so at
\* most one of them is about to answer 'Item resolved successfully'.
C27_OneResolveSucceeds ==
    ResolveChecksVerified(rev) => \A id \in Ids : Resolving(id) <= 1

-----------------------------------------------------------------------------
(* Properties of item creation *)

\* C7: no create request with status 'resolved' is answered 201, and no
\* document is stored with a status other than 'lost' or 'found'.
C7_ResolvedNotInitial ==
    /\ (res.op = "create" /\ res.arg = "resolved") => res.kind # "Ok"
    /\ \A i \in 1..Len(items) : items[i].status \in {"lost", "found"}

\* the create requests of e that are suspended
CreatesOf(e) ==
    BagCardinality([t \in { x \in BagToSet(tasks) : x.op = "create" /\ x.email = e }
                      |-> CopiesIn(t, tasks)])

\* C8: while an e-mail is not in the verified set, no create request for it
\* gets as far as an upload or a save, and one that carries all fields is
\* answered 'Email not verified' at once; no document is stored.
C8_UnverifiedCreateRejected ==
    [][\A e \in Emails \ verifiedEmails :
         /\ CreatesOf(e)' <= CreatesOf(e)
         /\ (res'.op = "create" /\ res'.email = e /\ tasks' = tasks)
            => /\ items' = items
               /\ verifiedEmails' = verifiedEmails
               /\ \A s \in BodyStatuses \ {""} : \A file \in BOOLEAN :
                  \A extra \in 0..1 :
                    CreateItem(e, s, TRUE, file, extra)
                    => (res'.kind = "NotVerified" /\ res'.http = 400)]_vars

\* C19: when the upload of the photo returns, the create request either goes
\* on to the save with its photo, or is answered 500 'Error uploading image'
\* and ends; it never goes on without the photo, and the step stores no
\* document.
C19_UploadFailureAborts ==
    /\ [][\A t \in Waiting("create", "upload") :
            CopiesIn(t, tasks') < CopiesIn(t, tasks)
            => /\ items' = items
               /\ verifiedEmails' = verifiedEmails
               /\ \/ /\ tasks' = Resume(t) (+) SetToBag({[t EXCEPT !.pc = "save"]})
                     /\ res' = NoRes
                  \/ /\ tasks' = Resume(t)
                     /\ res'.op = "create"
                     /\ res'.kind = "UploadError"
                     /\ res'.http = 500]_vars
    /\ [](\A t \in BagToSet(tasks) :
            (t.op = "create" /\ t.pc = "upload") => (t.file /\ HasUpload(rev)))

\* the upload of the only create request failed: it has been answered 500, no
\* document has been stored and the request is gone
C19_Witness ==
    /\ res.op = "create"
    /\ res.kind = "UploadError"
    /\ Len(items) = 0
    /\ tasks = EmptyBag
    /\ res.email \in verifiedEmails

\* C22: a document is stored with status 'lost' or 'found'; afterwards its
\* status either stays as it is or goes from 'lost' or 'found' to 'resolved',
\* and a resolved document stays resolved.
C22_StatusLifecycle ==
    [][/\ Len(items') >= Len(items)
       /\ \A i \in 1..Len(items') :
            IF i > Len(items)
            THEN items'[i].status \in {"lost", "found"}
            ELSE \/ items'[i].status = items[i].status
                 \/ /\ items[i].status \in {"lost", "found"}
                    /\ items'[i].status = "resolved"]_vars

\* sequence p is the beginning of sequence q
IsPrefix(p, q) == Len(p) <= Len(q) /\ SubSeq(q, 1, Len(p)) = p

\* q is p, or p with one more element at the end
SameOrOneMore(p, q) == IsPrefix(p, q) /\ Len(q) <= Len(p) + 1

\* C24: seenBy and claims of a document only grow at the end, by one entry in
\* a step, and a document that has just been created has both empty.
C24_AppendOnly ==
    [][/\ Len(items') >= Len(items)
       /\ \A i \in 1..Len(items') :
            IF i > Len(items)
            THEN items'[i].seenBy = << >> /\ items'[i].claims = << >>
            ELSE /\ SameOrOneMore(items[i].seenBy, items'[i].seenBy)
                 /\ SameOrOneMore(items[i].claims, items'[i].claims)]_vars

\* C28: after one verification at most one create request stores a document:
\* the collection never holds more than one document beyond those it started
\* with.
C28_OneCreatePerVerification ==
    Len(items) <= InitialLen + 1

\* an OTP was requested for e and never verified, and a create for e has just
\* been refused
C8_Witness ==
    \E e \in Emails :
        /\ res.op = "create"
        /\ res.email = e
        /\ res.kind = "NotVerified"
        /\ otpStore[e] # NoOTP
        /\ e \notin verifiedEmails

\* C9: a create request that is answered 201 has stored a document with the
\* status and the reporter e-mail of the request and has removed that e-mail
\* from the verified set; a create request for it that comes next is
\* answered 'Email not verified'.
C9_CreateConsumesVerification ==
    /\ []((res.op = "create" /\ res.kind = "Ok")
            => /\ res.id = Len(items)
               /\ items[res.id].status = res.arg
               /\ items[res.id].yourEmail = res.email
               /\ res.email \notin verifiedEmails)
    /\ [][\A s \in BodyStatuses \ {""} : \A file \in BOOLEAN : \A extra \in 0..1 :
            (res.op = "create" /\ res.kind = "Ok"
               /\ CreateItem(res.email, s, TRUE, file, extra))
            => (res'.kind = "NotVerified" /\ items' = items)]_vars

\* C32: a create request that is answered with a failure (missing field,
\* failed upload, failed save) leaves the verified set and the documents as
\* they were; an e-mail leaves the verified set only in the step that answers
\* its create request 201; a request with a missing field is answered
\* 'Missing required fields' whether or not its e-mail is verified; and a
\* complete request is refused as not verified only when its e-mail is not in
\* the verified set.
C32_FailedCreateKeepsVerification ==
    /\ [][(res'.op = "create"
             /\ res'.kind \in {"ValidationError", "UploadError", "StorageError"})
          => /\ verifiedEmails' = verifiedEmails
             /\ items' = items]_vars
    /\ [][\A e \in verifiedEmails \ verifiedEmails' :
            /\ res'.op = "create"
            /\ res'.kind = "Ok"
            /\ res'.email = e
            /\ Len(items') = Len(items) + 1]_vars
    /\ [][(res'.op = "create" /\ tasks' = tasks)
          => /\ \A e \in Emails \cup {NoEmail} : \A s \in BodyStatuses :
                  CreateItem(e, s, FALSE, FALSE, 0) => res'.kind = "ValidationError"
             /\ res'.kind = "NotVerified"
                  => /\ res'.arg # ""
                     /\ res'.email # NoEmail
                     /\ res'.email \notin verifiedEmails]_vars

\* the save of the only create request of A failed: it has been answered 500,
\* A is still verified and no document was added
C32_Witness ==
    /\ res.op = "create"
    /\ res.kind = "StorageError"
    /\ res.email = "A"
    /\ "A" \in verifiedEmails
    /\ tasks = EmptyBag
    /\ Len(items) = 0

\* a verified reporter has just created a lost item
C9_Witness ==
    /\ res.op = "create"
    /\ res.kind = "Ok"
    /\ res.arg = "lost"
    /\ items[res.id].status = "lost"
    /\ res.email \notin verifiedEmails

====
